---- MODULE Spec2Model ----
(***************************************************************************)
(* A model of bridge-vaults-exporter (src/src/service.rs).                 *)
(*                                                                         *)
(* Spec      the listening phase of one Listener: the start latch, the     *)
(*           periodic update loops of a VaultListener or a BridgeListener, *)
(*           and the renderer (Metrics::fmt) running concurrently.         *)
(* SpecInit  the startup phase (Service::new): the networks' Listener::new *)
(*           futures registering vaults and token groups in the shared     *)
(*           InitializationContext.                                        *)
(* SpecService    the service as a whole, for a few fixed configurations.  *)
(* SpecPrintedNum the calls on a PrintedNum (src/src/printed_num.rs).      *)
(*                                                                         *)
(* Variables written "ghost" record history only; no action reads them in  *)
(* a guard.                                                                *)
(***************************************************************************)
EXTENDS Integers, Sequences, FiniteSets, TLC

----------------------------------------------------------------------------
(* Bounds *)

\* start_listening invocations on one refresher
NumCalls == 2
\* highest round the bridge contract reaches
MaxRound == 3

Calls == 1..NumCalls
Rounds == 1..MaxRound

\* uint256 values a vault call may return
Vals == {7, 12}
\* values of now(): the last second of day 0 and the first second of day 1
Times == {86399, 86400}

----------------------------------------------------------------------------
(* Pure functions *)

\* const fn withdrawal_period(now: u32) -> u32
withdrawal_period_nearest(t) == (t + 43200) \div 86400
withdrawal_period(t) == t \div 86400

\* Uint::to_string: the decimal digits, most significant first
RECURSIVE UintToString(_)
UintToString(n) ==
    IF n < 10 THEN <<n>> ELSE UintToString(n \div 10) \o <<n % 10>>

\* the bridge contract's rounds(round).relayCount: fixed per round
RelayCountOf(round) == 3 * round

\* #[derive(Default)] VaultState
VaultStateDefault ==
    [updated_at |-> 0, balance |-> <<>>, total_assets |-> <<>>,
     withdraw_limit |-> <<>>, withdraw_total |-> <<>>,
     withdraw_considered |-> <<>>]

----------------------------------------------------------------------------
VARIABLES
    listener,          \* Listener: [bridge_listener: BOOLEAN, vaults: 0..1]
    now,               \* the system clock, seconds
    vault_listening,   \* VaultListener.listening
    state,             \* VaultListener.state (the value inside the RwLock)
    state_readers,     \* read guards held on VaultListener.state
    state_writer,      \* the call whose tick holds the write guard, or 0
    state_epoch,       \* ghost: flips whenever a tick writes `state`
    vault_task,        \* per start_listening call: its position and locals
    last_ok,           \* ghost: the integers the latest successful tick fetched
    bridge_listening,  \* BridgeListener.listening
    current_round,     \* BridgeListener.current_round
    relay_count,       \* BridgeListener.relay_count
    bridge_task,       \* per start_listening call: its position and locals
    chain_round,       \* the bridge contract's lastRound()
    relay_stale,       \* ghost: a relay-count fetch failed since the last Ok tick
    r_pc,              \* Metrics::fmt: position
    r_round,           \* Metrics::fmt: local relay_round
    r_out,             \* Metrics::fmt: the entries written so far
    r_src,             \* ghost: per vault entry written, state_epoch then
    r_had,             \* ghost: a tick had succeeded when the pass read the vault
    unique_vaults,     \* InitializationContext.unique_vaults
    token_groups,      \* InitializationContext.token_groups
    networks,          \* Service::new: the configured networks
    net_task,          \* per network: position of its Listener::new future
    service,           \* Service::new: "init", "ok" or "failed"
    init_log,          \* ghost: the registry calls made, with their results
    has_bridge_proxy,  \* InitializationContext.has_bridge_proxy
    init_error,        \* ghost: the error Service::new returned, or "none"
    run_pc,            \* main.rs run: "new", "listening", "serving", "exit"
    token_decimals,    \* Service.token_decimals: the entries of the string
    setup,             \* the configuration and the chain ids the endpoints
                       \* report: any (drawn where first read) or fixed
    vault_states,      \* per vault of the service: VaultListener.state
    vault_ticks,       \* per vault of the service: position of its refresher
    r_todo,            \* Metrics::fmt over the service: what it has yet to visit
    r_after,           \* ghost: every vault had a successful tick when the
                       \* pass began
    printed            \* a PrintedNum, the Formatter it is written to and
                       \* the outcome of the call made on it

vaultVars  == <<vault_listening, state, state_readers, state_writer,
                state_epoch, vault_task, last_ok>>
bridgeVars == <<bridge_listening, current_round, relay_count, bridge_task,
                chain_round, relay_stale>>
renderVars == <<r_pc, r_round, r_out, r_src, r_had>>
svcVars    == <<setup, vault_states, vault_ticks, r_todo, r_after>>
initVars   == <<unique_vaults, token_groups, networks, net_task, service,
                init_log, has_bridge_proxy, init_error, run_pc,
                token_decimals, svcVars>>
vars == <<listener, now, vaultVars, bridgeVars, renderVars, initVars,
         printed>>

----------------------------------------------------------------------------
(* VaultListener *)

\* no statistics call issued yet
NoPeriod == -1

VaultTask0 ==
    [pc |-> "idle", spawned |-> FALSE, updated_at |-> 0,
     balance |-> 0, total_assets |-> 0, withdraw_limit |-> 0,
     withdraw_total |-> 0, withdraw_considered |-> 0,
     period |-> NoPeriod,  \* the period id passed to the statistics call
     before |-> VaultStateDefault, result |-> "none"]

\* ghost: no tick has succeeded yet
LastOk0 ==
    [ticks |-> 0, updated_at |-> 0, balance |-> 0, total_assets |-> 0,
     withdraw_limit |-> 0, withdraw_total |-> 0, withdraw_considered |-> 0,
     period |-> NoPeriod]  \* the period id its statistics call was given

\* a task between ticks: locals dropped; ghost: the tick's outcome and, for a
\* failed tick, the state it began with
VaultTaskAfter(task, spawned, result) ==
    [VaultTask0 EXCEPT !.pc = IF spawned THEN "sleep" ELSE "failed",
                       !.spawned = spawned,
                       !.before = IF result = "err" THEN task.before
                                  ELSE VaultStateDefault,
                       !.result = result]

\* self.listening.swap(true): the value returned
VaultLatchSwapNoLatch(flag) == FALSE
VaultLatchSwap(flag) == flag

\* update(): updated_at = now(), then the balanceOf call is issued; no lock
\* is taken
Vault_update_begin_locked(c) ==
    \E t \in Times :
        /\ t >= now
        /\ now' = t
        /\ state_readers = 0 /\ state_writer = 0
        /\ state_writer' = c
        /\ vault_task' = [vault_task EXCEPT ![c] =
               [@ EXCEPT !.pc = "balance", !.updated_at = t,
                         !.before = state, !.result = "none"]]
Vault_update_begin(c) ==
    \E t \in Times :
        /\ t >= now
        /\ now' = t
        /\ UNCHANGED state_writer
        /\ vault_task' = [vault_task EXCEPT ![c] =
               [@ EXCEPT !.pc = "balance", !.updated_at = t,
                         !.before = state, !.result = "none"]]

Vault_start_listening(c) ==
    /\ listener.vaults = 1
    /\ vault_task[c].pc = "idle"
    /\ vault_listening' = TRUE
    /\ IF VaultLatchSwap(vault_listening)
       THEN /\ vault_task' = [vault_task EXCEPT ![c].pc = "noop"]
            /\ UNCHANGED <<now, state_writer>>
       ELSE Vault_update_begin(c)
    /\ UNCHANGED <<printed, listener, state, state_readers, state_epoch, last_ok,
                   bridgeVars, renderVars, initVars>>

\* the spawned loop: sleep(interval) is over, the next update begins
Vault_loop_wake(c) ==
    /\ vault_task[c].pc = "sleep"
    /\ Vault_update_begin(c)
    /\ UNCHANGED <<printed, listener, vault_listening, state, state_readers,
                   state_epoch, last_ok, bridgeVars, renderVars, initVars>>

\* a call of the tick failed: `?` leaves update(); start_listening returns
\* the error, the loop logs it and sleeps again
Vault_update_err_partial(c) ==
    /\ vault_task' = [vault_task EXCEPT ![c] =
           VaultTaskAfter(@, @.spawned, "err")]
    /\ state' = [state EXCEPT !.updated_at = vault_task[c].updated_at]
    /\ UNCHANGED <<state_epoch>>
Vault_update_err(c) ==
    /\ vault_task' = [vault_task EXCEPT ![c] =
           VaultTaskAfter(@, @.spawned, "err")]
    /\ UNCHANGED <<state, state_epoch>>

get_vault_balance(c) ==
    /\ vault_task[c].pc = "balance"
    /\ \/ /\ \E v \in Vals : vault_task' = [vault_task EXCEPT ![c] =
                 [@ EXCEPT !.pc = "total_assets", !.balance = v]]
          /\ UNCHANGED <<state, state_epoch>>
       \/ Vault_update_err(c)
    /\ UNCHANGED <<printed, listener, now, vault_listening, state_readers,
                   state_writer, last_ok, bridgeVars, renderVars, initVars>>

get_vault_total_assets_unchecked(c) ==
    /\ vault_task[c].pc = "total_assets"
    /\ \/ \E v \in Vals : vault_task' = [vault_task EXCEPT ![c] =
              [@ EXCEPT !.pc = "withdraw_limit", !.total_assets = v]]
       \/ vault_task' = [vault_task EXCEPT ![c] =
              [@ EXCEPT !.pc = "withdraw_limit", !.result = "err"]]
    /\ UNCHANGED <<printed, listener, now, vault_listening, state,
                   state_epoch, state_readers, state_writer, last_ok,
                   bridgeVars, renderVars, initVars>>
get_vault_total_assets(c) ==
    /\ vault_task[c].pc = "total_assets"
    /\ \/ /\ \E v \in Vals : vault_task' = [vault_task EXCEPT ![c] =
                 [@ EXCEPT !.pc = "withdraw_limit", !.total_assets = v]]
          /\ UNCHANGED <<state, state_epoch>>
       \/ Vault_update_err(c)
    /\ UNCHANGED <<printed, listener, now, vault_listening, state_readers,
                   state_writer, last_ok, bridgeVars, renderVars, initVars>>

get_withdraw_limit_per_period(c) ==
    /\ vault_task[c].pc = "withdraw_limit"
    /\ \/ /\ \E v \in Vals : vault_task' = [vault_task EXCEPT ![c] =
                 [@ EXCEPT !.pc = "period_stats", !.withdraw_limit = v,
                           !.period = withdrawal_period(
                                          vault_task[c].updated_at)]]
          /\ UNCHANGED <<state, state_epoch>>
       \/ Vault_update_err(c)
    /\ UNCHANGED <<printed, listener, now, vault_listening, state_readers,
                   state_writer, last_ok, bridgeVars, renderVars, initVars>>

get_withdrawal_period_stats(c) ==
    /\ vault_task[c].pc = "period_stats"
    /\ \/ /\ \E total \in Vals, considered \in Vals :
                 vault_task' = [vault_task EXCEPT ![c] =
                     [@ EXCEPT !.pc = "publish", !.withdraw_total = total,
                               !.withdraw_considered = considered]]
          /\ UNCHANGED <<state, state_epoch>>
       \/ Vault_update_err(c)
    /\ UNCHANGED <<printed, listener, now, vault_listening, state_readers,
                   state_writer, last_ok, bridgeVars, renderVars, initVars>>

\* RwLock::write(): granted only while no guard is held
StateWriteLockNoLock == TRUE
StateWriteLock == state_readers = 0 /\ state_writer = 0

\* RwLock::read(): granted only while no write guard is held
StateReadLock == state_writer = 0

\* the VaultState built from the tick's locals
NewVaultState(task) ==
    [updated_at |-> task.updated_at,
     balance |-> UintToString(task.balance),
     total_assets |-> UintToString(task.total_assets),
     withdraw_limit |-> UintToString(task.withdraw_limit),
     withdraw_total |-> UintToString(task.withdraw_total),
     withdraw_considered |-> UintToString(task.withdraw_considered)]

\* line 260: the new VaultState is built and self.state.write() is granted
Vault_state_write(c) ==
    /\ vault_task[c].pc = "publish"
    /\ StateWriteLock
    /\ state_writer' = c
    /\ vault_task' = [vault_task EXCEPT ![c].pc = "write"]
    /\ UNCHANGED <<printed, listener, now, vault_listening, state, state_readers,
                   state_epoch, last_ok, bridgeVars, renderVars, initVars>>

\* line 260: the state is replaced and the write guard dropped; update()
\* returns Ok; the initial update is followed by the spawn of the loop and
\* the Ok of start_listening
Vault_update_publish(c) ==
    /\ vault_task[c].pc = "write"
    /\ state' = NewVaultState(vault_task[c])
    /\ state_epoch' = 1 - state_epoch
    /\ state_writer' = 0
    /\ last_ok' = [ticks |-> 1,
                   updated_at |-> vault_task[c].updated_at,
                   balance |-> vault_task[c].balance,
                   total_assets |-> vault_task[c].total_assets,
                   withdraw_limit |-> vault_task[c].withdraw_limit,
                   withdraw_total |-> vault_task[c].withdraw_total,
                   withdraw_considered |-> vault_task[c].withdraw_considered,
                   period |-> vault_task[c].period]
    /\ vault_task' = [vault_task EXCEPT ![c] = VaultTaskAfter(@, TRUE, "ok")]
    /\ UNCHANGED <<printed, listener, now, vault_listening, state_readers,
                   bridgeVars, renderVars, initVars>>

----------------------------------------------------------------------------
(* BridgeListener *)

BridgeTask0 ==
    [pc |-> "idle", spawned |-> FALSE,
     fetched |-> 0,        \* local current_round (0: not fetched yet)
     prev |-> 0,           \* ghost: the value the swap returned
     calls |-> <<>>,       \* ghost: arguments of the relay-count calls issued
     stored |-> FALSE,     \* ghost: the tick stored relay_count
     before |-> [current_round |-> 0, relay_count |-> 0],
     was_stale |-> FALSE,  \* ghost: relay_stale when the tick began
     loop_tick |-> FALSE,  \* ghost: the tick was begun by the spawned loop
     result |-> "none"]

\* a task between ticks: the tick's outcome is kept (ghost)
BridgeTaskAfter(task, spawned, result) ==
    [task EXCEPT !.pc = IF spawned THEN "sleep" ELSE "failed",
                 !.spawned = spawned,
                 !.result = result]

\* self.listening.swap(true): the value returned
BridgeLatchSwapNoLatch(flag) == FALSE
BridgeLatchSwap(flag) == flag

\* update(): the lastRound call is issued
Bridge_update_begin(c) ==
    bridge_task' = [bridge_task EXCEPT ![c] =
           [BridgeTask0 EXCEPT !.pc = "last_round",
                               !.spawned = bridge_task[c].spawned,
                               !.loop_tick = bridge_task[c].spawned,
                               !.before = [current_round |-> current_round,
                                           relay_count |-> relay_count],
                               !.was_stale = relay_stale]]

Bridge_start_listening(c) ==
    /\ listener.bridge_listener
    /\ bridge_task[c].pc = "idle"
    /\ bridge_listening' = TRUE
    /\ IF BridgeLatchSwap(bridge_listening)
       THEN bridge_task' = [bridge_task EXCEPT ![c].pc = "noop"]
       ELSE Bridge_update_begin(c)
    /\ UNCHANGED <<printed, listener, now, vaultVars, current_round, relay_count,
                   chain_round, relay_stale, renderVars, initVars>>

\* the spawned loop: sleep(interval) is over, the next update begins
Bridge_loop_wake(c) ==
    /\ bridge_task[c].pc = "sleep"
    /\ Bridge_update_begin(c)
    /\ UNCHANGED <<printed, listener, now, vaultVars, bridge_listening, current_round,
                   relay_count, chain_round, relay_stale, renderVars,
                   initVars>>

\* a call of the tick failed: `?` leaves update()
Bridge_update_err(c) ==
    bridge_task' = [bridge_task EXCEPT ![c] =
        BridgeTaskAfter(@, @.spawned, "err")]

\* update() returned Ok; the initial update is followed by the spawn of the
\* loop and the Ok of start_listening
Bridge_update_ok(c, task) ==
    /\ bridge_task' = [bridge_task EXCEPT ![c] =
           BridgeTaskAfter(task, TRUE, "ok")]
    /\ relay_stale' = FALSE

\* self.current_round.swap(current_round) == current_round
RoundUnchangedNever(prev, fetched) == FALSE
RoundUnchanged(prev, fetched) == prev = fetched

\* get_last_round returns; the swap and the comparison follow at once
get_last_round(c) ==
    /\ bridge_task[c].pc = "last_round"
    /\ \/ LET fetched == chain_round
              prev == current_round
              task == [bridge_task[c] EXCEPT !.fetched = fetched,
                                             !.prev = prev]
          IN  /\ current_round' = fetched
              /\ IF RoundUnchanged(prev, fetched)
                 THEN Bridge_update_ok(c, task)
                 ELSE /\ bridge_task' = [bridge_task EXCEPT ![c] =
                             [task EXCEPT !.pc = "relay_count",
                                          !.calls = Append(@, fetched)]]
                      /\ UNCHANGED relay_stale
       \/ /\ Bridge_update_err(c)
          /\ UNCHANGED <<current_round, relay_stale>>
    /\ UNCHANGED <<printed, listener, now, vaultVars, bridge_listening,
                   relay_count, chain_round, renderVars, initVars>>

\* get_relay_count(bridge_proxy, current_round) returns
get_relay_count(c) ==
    /\ bridge_task[c].pc = "relay_count"
    /\ \/ /\ relay_count' = RelayCountOf(bridge_task[c].fetched)
          /\ Bridge_update_ok(c, [bridge_task[c] EXCEPT !.stored = TRUE])
       \/ /\ Bridge_update_err(c)
          /\ relay_stale' = TRUE
          /\ UNCHANGED relay_count
    /\ UNCHANGED <<printed, listener, now, vaultVars, bridge_listening,
                   current_round, chain_round, renderVars, initVars>>

\* the chain: the bridge contract opens a new round
ChainNewRound ==
    /\ listener.bridge_listener
    /\ chain_round < MaxRound
    /\ chain_round' = chain_round + 1
    /\ UNCHANGED <<printed, listener, now, vaultVars, bridge_listening,
                   current_round, relay_count, bridge_task, relay_stale,
                   renderVars, initVars>>

----------------------------------------------------------------------------
(* Metrics::fmt *)

\* PrintedNum's Display: write_str(self.0)
PrintedNumRounded(s) == [i \in 1..Len(s) |-> IF i = 1 THEN s[i] ELSE 0]
PrintedNum(s) == s

\* no PrintedNum is under test
PrintedNum0 ==
    [pc |-> "none", self |-> <<>>, other |-> <<>>, f |-> <<>>,
     method |-> "none", radix |-> 0, panic |-> "none", value |-> <<>>]

Entry(name, value) == [name |-> name, value |-> value]
PeriodEntry(name, period, value) ==
    [name |-> name, withdrawal_period |-> period, value |-> value]

\* the k-th entry written for a vault, k = 0..5, from the locked state
VaultEntryClock(k, st) ==
    CASE k = 0 -> Entry("balance", PrintedNum(st.balance))
      [] k = 1 -> Entry("total_assets", PrintedNum(st.total_assets))
      [] k = 2 -> Entry("withdraw_limit_per_period",
                        PrintedNum(st.withdraw_limit))
      [] k = 3 -> PeriodEntry("withdrawal_period_total",
                              withdrawal_period(now),
                              PrintedNum(st.withdraw_total))
      [] k = 4 -> PeriodEntry("withdrawal_period_considered",
                              withdrawal_period(now),
                              PrintedNum(st.withdraw_considered))
      [] k = 5 -> Entry("updated_at", st.updated_at)
VaultEntry(k, st) ==
    CASE k = 0 -> Entry("balance", PrintedNum(st.balance))
      [] k = 1 -> Entry("total_assets", PrintedNum(st.total_assets))
      [] k = 2 -> Entry("withdraw_limit_per_period",
                        PrintedNum(st.withdraw_limit))
      [] k = 3 -> PeriodEntry("withdrawal_period_total",
                              withdrawal_period(st.updated_at),
                              PrintedNum(st.withdraw_total))
      [] k = 4 -> PeriodEntry("withdrawal_period_considered",
                              withdrawal_period(st.updated_at),
                              PrintedNum(st.withdraw_considered))
      [] k = 5 -> Entry("updated_at", st.updated_at)

VaultEntries == 6

Metrics_fmt_begin ==
    /\ r_pc = "idle"
    /\ r_pc' = IF listener.bridge_listener THEN "relay_round"
               ELSE IF listener.vaults = 0 THEN "done" ELSE "vaults"
    /\ UNCHANGED <<printed, listener, now, vaultVars, bridgeVars, r_round,
                   r_out, r_src, r_had, initVars>>

\* bridge_listener.current_round.load()
Metrics_fmt_load_round ==
    /\ r_pc = "relay_round"
    /\ r_round' = current_round
    /\ r_pc' = "relay_count"
    /\ UNCHANGED <<printed, listener, now, vaultVars, bridgeVars, r_out, r_src,
                   r_had, initVars>>

\* bridge_listener.relay_count.load(); both entries are written
Metrics_fmt_load_count ==
    /\ r_pc = "relay_count"
    /\ r_out' = r_out \o <<Entry("relay_round", r_round),
                           Entry("relay_count", relay_count)>>
    /\ r_round' = 0
    /\ r_pc' = IF listener.vaults = 0 THEN "done" ELSE "vaults"
    /\ UNCHANGED <<printed, listener, now, vaultVars, bridgeVars, r_src, r_had,
                   initVars>>

\* line 539: state.updated_at == 0
NeverRefreshedNever(st) == FALSE
NeverRefreshed(st) == st.updated_at = 0

\* vault.state.read(); a vault never refreshed is skipped
Metrics_fmt_read_lock ==
    /\ r_pc = "vaults"
    /\ StateReadLock
    /\ IF NeverRefreshed(state)
       THEN /\ r_pc' = "done"
            /\ UNCHANGED state_readers
       ELSE /\ r_pc' = "emit"
            /\ state_readers' = state_readers + 1
    /\ r_had' = (last_ok.ticks > 0)
    /\ UNCHANGED <<printed, listener, now, vault_listening, state, state_writer,
                   state_epoch, vault_task, last_ok, bridgeVars, r_round,
                   r_out, r_src, initVars>>

\* one begin_metric(..).value(..) of the vault, read through the guard
Metrics_fmt_emit ==
    /\ r_pc = "emit"
    /\ Len(r_src) < VaultEntries
    /\ r_out' = Append(r_out, VaultEntry(Len(r_src), state))
    /\ r_src' = Append(r_src, state_epoch)
    /\ UNCHANGED <<printed, listener, now, vaultVars, bridgeVars, r_pc, r_round,
                   r_had, initVars>>

\* the read guard is dropped and fmt returns Ok
Metrics_fmt_end ==
    /\ \/ /\ r_pc = "emit"
          /\ Len(r_src) = VaultEntries
          /\ state_readers' = state_readers - 1
       \/ /\ r_pc = "done"
          /\ UNCHANGED state_readers
    /\ r_pc' = "idle"
    /\ r_out' = <<>>
    /\ r_src' = <<>>
    /\ r_had' = FALSE
    /\ UNCHANGED <<printed, listener, now, vault_listening, state, state_writer,
                   state_epoch, vault_task, last_ok, bridgeVars, r_round,
                   initVars>>

----------------------------------------------------------------------------
(* The startup phase: Service::new, Listener::new, BridgeListener::new,     *)
(* VaultListener::new and the InitializationContext                         *)

\* vaults configured per network, at most
MaxVaults == 2

\* the configured networks; two endpoints may report the same chain id
Networks == {1, 2}
ChainIds == {1, 2}
Addrs == {"a1", "a2"}
NoGroup == "none"
Groups == {"g1", "g2"}

\* the chain: vault.token(). On chain 1 both vaults hold the same token, on
\* chain 2 each holds its own
TokenOf(chain, address) ==
    IF chain = 1 \/ address = "a1" THEN "t1" ELSE "t2"

\* the chain: the token's symbol() and decimals()
TokenInfoOf(chain, token) ==
    [symbol |-> token, decimals |-> IF token = "t1" THEN 18 ELSE 6]

\* config.vaults: lists of VaultsEntry {address, group}
VaultsEntries == [address : Addrs, group : Groups \cup {NoGroup}]
VaultLists == UNION {[1..k -> VaultsEntries] : k \in 0..MaxVaults}

\* NetworkVaults, with the chain id its endpoint reports
AllNetworkVaults ==
    [chain_id : ChainIds, bridge_proxy : BOOLEAN, vaults : VaultLists]

\* the configurations network n may have
NetworkVaults(n) ==
    IF setup.any THEN AllNetworkVaults ELSE {setup.networks[n]}

\* InitializationContext::set_has_bridge_proxy: has_bridge_proxy.swap(true),
\* Ok iff the flag was clear
set_has_bridge_proxy_always_ok(flag) == [ok |-> TRUE, flag |-> TRUE]
set_has_bridge_proxy(flag) == [ok |-> ~flag, flag |-> TRUE]

\* InitializationContext::add_vault: HashSet::insert, Ok iff newly inserted
add_vault_always_ok(set, key) == [ok |-> TRUE, set |-> set \cup {key}]
add_vault(set, key) == [ok |-> key \notin set, set |-> set \cup {key}]

\* InitializationContext::add_token_group on the map, a set of <<key, label>>
add_token_group_overwrite(map, key, label) ==
    [ok |-> TRUE,
     map |-> {e \in map : e[1] # key} \cup {<<key, label>>}]
add_token_group(map, key, label) ==
    IF \A e \in map : e[1] # key
    THEN [ok |-> TRUE, map |-> map \cup {<<key, label>>}]
    ELSE IF <<key, label>> \in map
         THEN [ok |-> TRUE, map |-> map]
         ELSE [ok |-> FALSE, map |-> map]

\* the label recorded for key, NoGroup if none
GroupOf(map, key) ==
    IF \E e \in map : e[1] = key
    THEN (CHOOSE e \in map : e[1] = key)[2]
    ELSE NoGroup

\* Listener::new, lines 95-98: add_vault for each configured vault in turn,
\* up to the first duplicate; a VaultListener::new future per vault added
RECURSIVE AddVaults(_, _, _, _, _)
AddVaults(n, chain, entries, i, acc) ==
    IF i > Len(entries) THEN acc
    ELSE LET key == <<chain, entries[i].address>>
             r == add_vault(acc.set, key)
             log == acc.log \cup
                        {[op |-> "add_vault", net |-> n, idx |-> i,
                          key |-> key, label |-> NoGroup,
                          seen |-> IF key \in acc.set THEN "vault"
                                   ELSE NoGroup,
                          ok |-> r.ok]}
         IN  IF r.ok
             THEN AddVaults(n, chain, entries, i + 1,
                            [ok |-> TRUE, set |-> r.set, log |-> log])
             ELSE [ok |-> FALSE, set |-> r.set, log |-> log]

\* the vaults a configuration can hold, as <<network, index>>
VaultSlots == Networks \X (1..MaxVaults)

\* the refresher of a vault of the service: not started, no tick yet
VaultTick0 == [pc |-> "idle", updated_at |-> 0, ticks |-> 0]

\* a Listener::new future: Api::new is awaited
NetTask0 ==
    [pc |-> "api", chain_id |-> 0, bridge_listener |-> FALSE,
     last_round |-> 0, vaults |-> <<>>]

\* a VaultListener::new future: the token call is issued
VaultFuture(entry) ==
    [address |-> entry.address, group |-> entry.group, pc |-> "token",
     token |-> "none"]

\* the VaultListener::new futures, as <<network, index>>
VaultFutures ==
    UNION {{<<n, i>> : i \in 1..Len(net_task[n].vaults)} : n \in Networks}

\* the Listener::new future of n is complete once every vault future is
NetPc(vaults) ==
    IF \A i \in 1..Len(vaults) : vaults[i].pc = "done" THEN "done" ELSE "join"

\* Service::new returns Ok once every Listener::new future is complete
ServiceAfterFirst(tasks) ==
    IF \E n \in Networks : tasks[n].pc = "done" THEN "ok" ELSE "init"
ServiceAfter(tasks) ==
    IF \A n \in Networks : tasks[n].pc = "done" THEN "ok" ELSE "init"

\* the orders in which a HashMap of these entries may be iterated
Orders(S) ==
    {s \in [1..Cardinality(S) -> S] :
        \A i, j \in 1..Cardinality(S) : i # j => s[i] # s[j]}

\* a token_decimals entry
TokenEntry(key, group) ==
    [name |-> "token_decimals", chain_id |-> key[1], token |-> key[2],
     token_group |-> group,
     symbol |-> TokenInfoOf(key[1], key[2]).symbol,
     value |-> TokenInfoOf(key[1], key[2]).decimals]

\* TokenDecimals::fmt, lines 599-610: the map tokens, one TokensEntry per
\* (chain id, token) of the listeners' vaults
Tokens(tasks) ==
    UNION {{<<tasks[n].chain_id, tasks[n].vaults[i].token>> :
               i \in 1..Len(tasks[n].vaults)} : n \in DOMAIN tasks}

\* TokenDecimals::fmt: the entries written, in the map's iteration order
TokenDecimalsPerVault(tasks, groups) ==
    LET ids == UNION {{<<n, i>> : i \in 1..Len(tasks[n].vaults)} :
                         n \in DOMAIN tasks}
        key(v) == <<tasks[v[1]].chain_id, tasks[v[1]].vaults[v[2]].token>>
    IN  {[i \in 1..Cardinality(ids) |->
             TokenEntry(key(o[i]), GroupOf(groups, key(o[i])))] :
            o \in Orders(ids)}
TokenDecimals(tasks, groups) ==
    LET entries == {TokenEntry(key, GroupOf(groups, key)) :
                        key \in Tokens(tasks)}
    IN  Orders(entries)

\* InitializationContext::prepare_decimals_info: the strings it may return
prepare_decimals_info(tasks, groups) == TokenDecimals(tasks, groups)

\* Service::new, lines 34-43: the futures completed so far are in tasks;
\* once all are, the catalogue is prepared and Ok returned
Service_new_return(tasks, groups) ==
    /\ service' = ServiceAfter(tasks)
    /\ IF ServiceAfter(tasks) = "ok"
       THEN token_decimals' \in prepare_decimals_info(tasks, groups)
       ELSE UNCHANGED token_decimals
    /\ UNCHANGED init_error

\* Service::new, line 35: a future returned an error, `?` returns it and the
\* other futures are dropped
Service_new_err(e) ==
    /\ service' = "failed"
    /\ init_error' = e
    /\ UNCHANGED token_decimals

\* Listener::new, lines 92-108: the network's vaults are registered and
\* their futures pushed
Listener_new_vaults(n, chain, entries, bridge, round) ==
    LET r == AddVaults(n, chain, entries, 1,
                       [ok |-> TRUE, set |-> unique_vaults,
                        log |-> init_log])
        futures == [i \in 1..Len(entries) |-> VaultFuture(entries[i])]
        tasks == [net_task EXCEPT ![n] =
                     [pc |-> NetPc(futures), chain_id |-> chain,
                      bridge_listener |-> bridge, last_round |-> round,
                      vaults |-> futures]]
    IN  /\ unique_vaults' = r.set
        /\ init_log' = r.log
        /\ IF r.ok
           THEN /\ net_task' = tasks
                /\ Service_new_return(tasks, token_groups)
           ELSE /\ Service_new_err("duplicate_vault")
                /\ UNCHANGED net_task

\* Api::new returns; with a bridge proxy configured BridgeListener::new
\* sets the latch and issues the lastRound call, without one Listener::new
\* goes on to the vaults. config.vaults is drawn where it is first read
Listener_new(n) ==
    /\ service = "init"
    /\ net_task[n].pc = "api"
    /\ \/ \E chain \in {c.chain_id : c \in {d \in NetworkVaults(n) :
                                                d.bridge_proxy}} :
            LET r == set_has_bridge_proxy(has_bridge_proxy)
            IN  /\ networks' = [networks EXCEPT ![n] =
                       [chain_id |-> chain, bridge_proxy |-> TRUE,
                        vaults |-> <<>>]]
                /\ has_bridge_proxy' = r.flag
                /\ init_log' = init_log \cup
                       {[op |-> "set_has_bridge_proxy", net |-> n,
                         idx |-> 0, key |-> <<chain, "proxy">>,
                         label |-> NoGroup,
                         seen |-> IF has_bridge_proxy THEN "bridge"
                                  ELSE NoGroup,
                         ok |-> r.ok]}
                /\ IF r.ok
                   THEN /\ net_task' = [net_task EXCEPT ![n] =
                               [@ EXCEPT !.pc = "bridge_round",
                                         !.chain_id = chain]]
                        /\ UNCHANGED <<service, init_error>>
                   ELSE /\ Service_new_err("duplicate_bridge")
                        /\ UNCHANGED net_task
                /\ UNCHANGED <<unique_vaults, token_decimals>>
       \/ \E c \in {d \in NetworkVaults(n) : ~d.bridge_proxy} :
            /\ networks' = [networks EXCEPT ![n] = c]
            /\ Listener_new_vaults(n, c.chain_id, c.vaults, FALSE, 0)
            /\ UNCHANGED has_bridge_proxy
       \/ /\ Service_new_err("api")
          /\ UNCHANGED <<unique_vaults, init_log, networks, net_task,
                         has_bridge_proxy>>
    /\ UNCHANGED <<printed, listener, now, vaultVars, bridgeVars, renderVars,
                   token_groups, run_pc, svcVars>>

\* BridgeListener::new, line 128: get_last_round returns
BridgeListener_new_last_round(n) ==
    /\ service = "init"
    /\ net_task[n].pc = "bridge_round"
    /\ \/ /\ net_task' = [net_task EXCEPT ![n] =
                 [@ EXCEPT !.pc = "bridge_count",
                           !.last_round = chain_round]]
          /\ UNCHANGED <<service, init_error>>
       \/ /\ Service_new_err("bridge_call")
          /\ UNCHANGED net_task
    /\ UNCHANGED <<printed, listener, now, vaultVars, bridgeVars, renderVars,
                   unique_vaults, token_groups, networks, init_log,
                   has_bridge_proxy, token_decimals, run_pc, svcVars>>

\* BridgeListener::new, lines 129-137: get_relay_count returns and the
\* BridgeListener is built; Listener::new goes on to the vaults
BridgeListener_new_relay_count(n) ==
    /\ service = "init"
    /\ net_task[n].pc = "bridge_count"
    /\ \/ \E entries \in {c.vaults : c \in {d \in NetworkVaults(n) :
                              /\ d.bridge_proxy
                              /\ d.chain_id = net_task[n].chain_id}} :
            /\ current_round' = net_task[n].last_round
            /\ relay_count' = RelayCountOf(net_task[n].last_round)
            /\ networks' = [networks EXCEPT ![n].vaults = entries]
            /\ Listener_new_vaults(n, net_task[n].chain_id, entries, TRUE,
                                   net_task[n].last_round)
       \/ /\ Service_new_err("bridge_call")
          /\ UNCHANGED <<net_task, unique_vaults, init_log, current_round,
                         relay_count, networks>>
    /\ UNCHANGED <<printed, listener, now, vaultVars, bridge_listening, bridge_task,
                   chain_round, relay_stale, renderVars, token_groups,
                   has_bridge_proxy, run_pc, svcVars>>

\* VaultListener::new: get_vault_token returns
get_vault_token(n, i) ==
    /\ service = "init"
    /\ i \in 1..Len(net_task[n].vaults)
    /\ net_task[n].vaults[i].pc = "token"
    /\ \/ /\ net_task' = [net_task EXCEPT ![n].vaults[i] =
                 [@ EXCEPT !.pc = "info",
                           !.token = TokenOf(net_task[n].chain_id,
                                 net_task[n].vaults[i].address)]]
          /\ UNCHANGED <<service, init_error>>
       \/ /\ Service_new_err("vault_token")
          /\ UNCHANGED net_task
    /\ UNCHANGED <<printed, listener, now, vaultVars, bridgeVars, renderVars,
                   unique_vaults, token_groups, networks, init_log,
                   has_bridge_proxy, token_decimals, run_pc, svcVars>>

\* VaultListener::new: get_token_info returns; the group, if any, is
\* registered and the VaultListener is built
get_token_info(n, i) ==
    /\ service = "init"
    /\ i \in 1..Len(net_task[n].vaults)
    /\ net_task[n].vaults[i].pc = "info"
    /\ \/ LET v == net_task[n].vaults[i]
              key == <<net_task[n].chain_id, v.token>>
              r == IF v.group = NoGroup
                   THEN [ok |-> TRUE, map |-> token_groups]
                   ELSE add_token_group(token_groups, key, v.group)
              futures == [net_task[n].vaults EXCEPT ![i].pc = "done"]
              tasks == [net_task EXCEPT ![n] =
                           [@ EXCEPT !.pc = NetPc(futures),
                                     !.vaults = futures]]
          IN  /\ token_groups' = r.map
              /\ init_log' =
                     IF v.group = NoGroup THEN init_log
                     ELSE init_log \cup
                              {[op |-> "add_token_group", net |-> n,
                                idx |-> i, key |-> key, label |-> v.group,
                                seen |-> GroupOf(token_groups, key),
                                ok |-> r.ok]}
              /\ IF r.ok
                 THEN /\ net_task' = tasks
                      /\ Service_new_return(tasks, r.map)
                 ELSE /\ Service_new_err("inconsistent_group")
                      /\ UNCHANGED net_task
       \/ /\ Service_new_err("token_info")
          /\ UNCHANGED <<net_task, token_groups, init_log>>
    /\ UNCHANGED <<printed, listener, now, vaultVars, bridgeVars, renderVars,
                   unique_vaults, networks, has_bridge_proxy, run_pc, svcVars>>

\* main.rs, run: Service::new returned Ok and start_listening is called
run_start_listening ==
    /\ run_pc = "new"
    /\ service = "ok"
    /\ run_pc' = "listening"
    /\ UNCHANGED <<printed, listener, now, vaultVars, bridgeVars, renderVars,
                   unique_vaults, token_groups, networks, net_task, service,
                   init_log, has_bridge_proxy, init_error, token_decimals,
                   svcVars>>

\* Service::new is called: nothing is registered, no listener exists yet
InitNew ==
    /\ printed = PrintedNum0
    /\ now = 86399
    /\ vault_listening = FALSE
    /\ state = VaultStateDefault
    /\ state_readers = 0
    /\ state_writer = 0
    /\ state_epoch = 0
    /\ last_ok = LastOk0
    /\ r_had = FALSE
    /\ vault_task = [c \in Calls |-> VaultTask0]
    /\ bridge_listening = FALSE
    /\ chain_round = 1 /\ current_round = 0 /\ relay_count = 0
    /\ bridge_task = [c \in Calls |-> BridgeTask0]
    /\ relay_stale = FALSE
    /\ r_pc = "idle"
    /\ r_round = 0
    /\ r_out = <<>>
    /\ r_src = <<>>
    /\ unique_vaults = {}
    /\ token_groups = {}
    /\ networks = [n \in Networks |->
                      [chain_id |-> 0, bridge_proxy |-> FALSE,
                       vaults |-> <<>>]]
    /\ net_task = [n \in Networks |-> NetTask0]
    /\ service = "init"
    /\ init_log = {}
    /\ has_bridge_proxy = FALSE
    /\ init_error = "none"
    /\ run_pc = "new"
    /\ token_decimals = <<>>
    /\ vault_states = [v \in VaultSlots |-> VaultStateDefault]
    /\ vault_ticks = [v \in VaultSlots |-> VaultTick0]
    /\ r_todo = {}
    /\ r_after = FALSE

\* Service::new is called with any configuration
InitStartup ==
    /\ InitNew
    /\ listener = [bridge_listener |-> FALSE, vaults |-> 0]
    /\ setup = [any |-> TRUE, networks |-> <<>>]

NextStartup ==
    \/ \E n \in Networks : Listener_new(n)
    \/ \E n \in Networks : BridgeListener_new_last_round(n)
    \/ \E n \in Networks : BridgeListener_new_relay_count(n)
    \/ \E n \in Networks, i \in 1..MaxVaults : get_vault_token(n, i)
    \/ \E n \in Networks, i \in 1..MaxVaults : get_token_info(n, i)
    \/ run_start_listening

SpecInit == InitStartup /\ [][NextStartup]_vars

----------------------------------------------------------------------------
(* The listening phase *)

\* the listeners checked: a network with a bridge proxy and no vault, and a
\* network with one vault and no bridge proxy (refreshers share no state)
Listeners ==
    {[bridge_listener |-> TRUE, vaults |-> 0],
     [bridge_listener |-> FALSE, vaults |-> 1]}

\* the state Service::new leaves: VaultListener::new and BridgeListener::new
InitListening ==
    /\ listener \in Listeners
    /\ now = 86399
    /\ vault_listening = FALSE
    /\ state = VaultStateDefault
    /\ state_readers = 0
    /\ state_writer = 0
    /\ state_epoch = 0
    /\ last_ok = LastOk0
    /\ r_had = FALSE
    /\ vault_task = [c \in Calls |-> VaultTask0]
    /\ bridge_listening = FALSE
    /\ IF listener.bridge_listener
       THEN \E r \in Rounds : /\ chain_round = r
                              /\ current_round = r
                              /\ relay_count = RelayCountOf(r)
       ELSE chain_round = 0 /\ current_round = 0 /\ relay_count = 0
    /\ bridge_task = [c \in Calls |-> BridgeTask0]
    /\ relay_stale = FALSE
    /\ r_pc = "idle"
    /\ r_round = 0
    /\ r_out = <<>>
    /\ r_src = <<>>

\* Service::new has returned Ok and run has called start_listening, for the
\* one network of the listener: its vault, if any, is address a1 on chain 1,
\* configured without a group
InitRun ==
    /\ InitListening
    /\ service = "ok"
    /\ init_error = "none"
    /\ run_pc = "listening"
    /\ token_groups = {}
    /\ has_bridge_proxy = listener.bridge_listener
    /\ networks = <<[chain_id |-> 1,
                     bridge_proxy |-> listener.bridge_listener,
                     vaults |-> IF listener.vaults = 1
                                THEN <<[address |-> "a1", group |-> NoGroup]>>
                                ELSE <<>>]>>
    /\ net_task = <<[pc |-> "done", chain_id |-> 1,
                     bridge_listener |-> listener.bridge_listener,
                     last_round |-> current_round,
                     vaults |-> IF listener.vaults = 1
                                THEN <<[address |-> "a1", group |-> NoGroup,
                                        pc |-> "done", token |-> "t1"]>>
                                ELSE <<>>]>>
    /\ unique_vaults = IF listener.vaults = 1 THEN {<<1, "a1">>} ELSE {}
    /\ init_log =
           IF listener.vaults = 1
           THEN {[op |-> "add_vault", net |-> 1, idx |-> 1,
                  key |-> <<1, "a1">>, label |-> NoGroup,
                  seen |-> NoGroup, ok |-> TRUE]}
           ELSE {[op |-> "set_has_bridge_proxy", net |-> 1, idx |-> 0,
                  key |-> <<1, "proxy">>, label |-> NoGroup,
                  seen |-> NoGroup, ok |-> TRUE]}
    /\ token_decimals =
           IF listener.vaults = 1
           THEN <<TokenEntry(<<1, "t1">>, NoGroup)>>
           ELSE <<>>
    /\ setup = [any |-> FALSE, networks |-> networks]
    /\ vault_states = [v \in VaultSlots |-> VaultStateDefault]
    /\ vault_ticks = [v \in VaultSlots |-> VaultTick0]
    /\ r_todo = {}
    /\ r_after = FALSE

Init ==
    /\ InitRun
    /\ printed = PrintedNum0

Next ==
    \/ \E c \in Calls : Vault_start_listening(c)
    \/ \E c \in Calls : Vault_loop_wake(c)
    \/ \E c \in Calls : get_vault_balance(c)
    \/ \E c \in Calls : get_vault_total_assets(c)
    \/ \E c \in Calls : get_withdraw_limit_per_period(c)
    \/ \E c \in Calls : get_withdrawal_period_stats(c)
    \/ \E c \in Calls : Vault_state_write(c)
    \/ \E c \in Calls : Vault_update_publish(c)
    \/ \E c \in Calls : Bridge_start_listening(c)
    \/ \E c \in Calls : Bridge_loop_wake(c)
    \/ \E c \in Calls : get_last_round(c)
    \/ \E c \in Calls : get_relay_count(c)
    \/ ChainNewRound
    \/ Metrics_fmt_begin
    \/ Metrics_fmt_load_round
    \/ Metrics_fmt_load_count
    \/ Metrics_fmt_read_lock
    \/ Metrics_fmt_emit
    \/ Metrics_fmt_end

Spec == Init /\ [][Next]_vars

----------------------------------------------------------------------------
(* The service as a whole: Service::new, Service::start_listening and       *)
(* Metrics::fmt over all listeners, for a few fixed configurations. A tick  *)
(* of a vault is two steps here, its begin and the return of its calls; the *)
(* bridge refresher is the one of the listening phase, started once.        *)

\* the uint256 every vault call returns in this specification
ServiceVals == {12}

\* two networks on chains 1 and 2, one vault each, no token shared, no
\* bridge proxy
SetupTwoNetworks ==
    [any |-> FALSE,
     networks |->
        <<[chain_id |-> 1, bridge_proxy |-> FALSE,
           vaults |-> <<[address |-> "a1", group |-> NoGroup]>>],
          [chain_id |-> 2, bridge_proxy |-> FALSE,
           vaults |-> <<[address |-> "a2", group |-> NoGroup]>>]>>]

\* one network with two vaults of one token, both in group g1, and a
\* network without vaults
SetupSharedToken ==
    [any |-> FALSE,
     networks |->
        <<[chain_id |-> 1, bridge_proxy |-> FALSE,
           vaults |-> <<[address |-> "a1", group |-> "g1"],
                        [address |-> "a2", group |-> "g1"]>>],
          [chain_id |-> 2, bridge_proxy |-> FALSE, vaults |-> <<>>]>>]

\* one network with a bridge proxy and one vault, and a network without
\* vaults
SetupBridge ==
    [any |-> FALSE,
     networks |->
        <<[chain_id |-> 1, bridge_proxy |-> TRUE,
           vaults |-> <<[address |-> "a1", group |-> NoGroup]>>],
          [chain_id |-> 2, bridge_proxy |-> FALSE, vaults |-> <<>>]>>]

ServiceSetups == {SetupTwoNetworks, SetupSharedToken, SetupBridge}

\* Service::start_listening, lines 48-56: the bridge listener, if any, has
\* been started before a vault future is polled
BridgeStarted == ~listener.bridge_listener \/ bridge_task[1].spawned

\* Service::start_listening has returned an error (lines 50, 59)
StartFailed ==
    \/ bridge_task[1].pc = "failed"
    \/ \E v \in VaultSlots : vault_ticks[v].pc = "failed"

\* line 50: bridge_listener.start_listening(interval).await
Service_start_listening_bridge ==
    /\ run_pc = "listening"
    /\ Bridge_start_listening(1)

\* the bridge refresher's steps, until the process ends
Service_bridge_loop_wake == run_pc # "exit" /\ Bridge_loop_wake(1)
Service_get_last_round == run_pc # "exit" /\ get_last_round(1)
Service_get_relay_count == run_pc # "exit" /\ get_relay_count(1)

\* lines 50-62: the bridge listener's start_listening and every future of
\* the FuturesUnordered have returned Ok
StartListeningOkFirst ==
    /\ BridgeStarted
    /\ VaultFutures # {} =>
           \E v \in VaultFutures : vault_ticks[v].pc \in {"sleep", "tick"}
StartListeningOk ==
    /\ BridgeStarted
    /\ \A v \in VaultFutures : vault_ticks[v].pc \in {"sleep", "tick"}

\* line 62 and main.rs, lines 31-43: start_listening returns Ok; run creates
\* the exporter and spawns the writer that renders service.metrics()
Service_start_listening_ok ==
    /\ run_pc = "listening"
    /\ StartListeningOk
    /\ run_pc' = "serving"
    /\ UNCHANGED <<printed, listener, now, vaultVars, bridgeVars, renderVars,
                   unique_vaults, token_groups, networks, net_task, service,
                   init_log, has_bridge_proxy, init_error, token_decimals,
                   svcVars>>

\* lines 50, 59 and main.rs, line 31: start_listening returns the error of
\* a failed initial update; run returns it and the process ends
Service_start_listening_err ==
    /\ run_pc = "listening"
    /\ StartFailed
    /\ run_pc' = "exit"
    /\ UNCHANGED <<printed, listener, now, vaultVars, bridgeVars, renderVars,
                   unique_vaults, token_groups, networks, net_task, service,
                   init_log, has_bridge_proxy, init_error, token_decimals,
                   svcVars>>

\* VaultListener::update, line 250: updated_at = now(), the calls follow
Service_vault_update_begin(v, pc) ==
    \E t \in Times :
        /\ t >= now
        /\ now' = t
        /\ vault_ticks' = [vault_ticks EXCEPT ![v] =
               [@ EXCEPT !.pc = pc, !.updated_at = t]]

\* lines 54-58: the future vault.start_listening(interval) is polled: the
\* latch is set and the initial update begins
Service_start_listening_vault(v) ==
    /\ run_pc = "listening"
    /\ v \in VaultFutures
    /\ BridgeStarted
    /\ ~StartFailed
    /\ vault_ticks[v].pc = "idle"
    /\ Service_vault_update_begin(v, "start")
    /\ UNCHANGED <<printed, listener, vaultVars, bridgeVars, renderVars,
                   unique_vaults, token_groups, networks, net_task, service,
                   init_log, has_bridge_proxy, init_error, run_pc,
                   token_decimals, setup, vault_states, r_todo, r_after>>

\* the spawned loop of a vault: sleep(interval) is over
Service_vault_loop_wake(v) ==
    /\ run_pc # "exit"
    /\ vault_ticks[v].pc = "sleep"
    /\ Service_vault_update_begin(v, "tick")
    /\ UNCHANGED <<printed, listener, vaultVars, bridgeVars, renderVars,
                   unique_vaults, token_groups, networks, net_task, service,
                   init_log, has_bridge_proxy, init_error, run_pc,
                   token_decimals, setup, vault_states, r_todo, r_after>>

\* line 260: *self.state.write() = new, on the state of vault v
PublishToAll(states, v, new) == [w \in DOMAIN states |-> new]
PublishTo(states, v, new) == [states EXCEPT ![v] = new]

\* VaultListener::update, lines 252-269: the four calls have returned and
\* the state is replaced, or one of them failed. A failed initial update
\* makes Service::start_listening return the error (line 59), which drops
\* the start_listening futures still pending; a failed tick of the loop is
\* logged
Service_vault_update(v) ==
    /\ run_pc # "exit"
    /\ vault_ticks[v].pc \in {"start", "tick"}
    /\ \/ \E b, a, l, t, c \in ServiceVals :
            /\ vault_states' = PublishTo(vault_states, v,
                   NewVaultState([updated_at |-> vault_ticks[v].updated_at,
                                  balance |-> b, total_assets |-> a,
                                  withdraw_limit |-> l, withdraw_total |-> t,
                                  withdraw_considered |-> c]))
            /\ vault_ticks' = [vault_ticks EXCEPT ![v] =
                   [pc |-> "sleep", updated_at |-> 0, ticks |-> 1]]
       \/ /\ vault_ticks[v].pc = "tick"
          /\ vault_ticks' = [vault_ticks EXCEPT ![v] =
                 [@ EXCEPT !.pc = "sleep", !.updated_at = 0]]
          /\ UNCHANGED vault_states
       \/ /\ vault_ticks[v].pc = "start"
          /\ vault_ticks' = [w \in VaultSlots |->
                 IF w = v THEN [vault_ticks[w] EXCEPT !.pc = "failed",
                                                     !.updated_at = 0]
                 ELSE IF vault_ticks[w].pc = "start"
                      THEN [vault_ticks[w] EXCEPT !.pc = "dropped",
                                                  !.updated_at = 0]
                      ELSE vault_ticks[w]]
          /\ UNCHANGED vault_states
    /\ UNCHANGED <<printed, listener, now, vaultVars, bridgeVars, renderVars,
                   unique_vaults, token_groups, networks, net_task, service,
                   init_log, has_bridge_proxy, init_error, run_pc,
                   token_decimals, setup, r_todo, r_after>>

\* Metrics::fmt, lines 544-579: the entries of one vault, none for a vault
\* never refreshed; updated_at carries no token label
VaultMetricsNoUpdatedAt(v, st) ==
    IF NeverRefreshed(st) THEN <<>>
    ELSE [k \in 1..(VaultEntries - 1) |->
             VaultEntry(k - 1, st) @@
             [chain_id |-> net_task[v[1]].chain_id,
              vault |-> net_task[v[1]].vaults[v[2]].address,
              token |-> net_task[v[1]].vaults[v[2]].token]]
VaultMetrics(v, st) ==
    IF NeverRefreshed(st) THEN <<>>
    ELSE [k \in 1..VaultEntries |->
             VaultEntry(k - 1, st) @@
             [chain_id |-> net_task[v[1]].chain_id,
              vault |-> net_task[v[1]].vaults[v[2]].address,
              token |-> IF k = VaultEntries THEN "none"
                        ELSE net_task[v[1]].vaults[v[2]].token]]

\* what a pass visits: the bridge listener and the vaults of every listener
RenderItems ==
    {<<"bridge", n, 0>> : n \in {m \in Networks :
                                    net_task[m].bridge_listener}}
        \cup {<<"vault", v[1], v[2]>> : v \in VaultFutures}

\* Metrics::fmt, lines 515-516: the cached catalogue is written first; the
\* writer that calls it exists only once start_listening has returned Ok
\* (main.rs, lines 31-43)
Service_metrics_begin ==
    /\ run_pc = "serving"
    /\ r_pc = "idle"
    /\ r_pc' = "listeners"
    /\ r_out' = token_decimals
    /\ r_todo' = RenderItems
    /\ r_after' = \A v \in VaultFutures : vault_ticks[v].ticks > 0
    /\ UNCHANGED <<printed, listener, now, vaultVars, bridgeVars, r_round, r_src,
                   r_had, unique_vaults, token_groups, networks, net_task,
                   service, init_log, has_bridge_proxy, init_error, run_pc,
                   token_decimals, setup, vault_states, vault_ticks>>

\* line 520, for the bridge listener of a listener not visited yet (the
\* listeners are in the order in which startup completed them)
Service_metrics_load_round(n) ==
    /\ r_pc = "listeners"
    /\ <<"bridge", n, 0>> \in r_todo
    /\ r_round' = current_round
    /\ r_pc' = "relay_count"
    /\ r_todo' = r_todo \ {<<"bridge", n, 0>>}
    /\ UNCHANGED <<printed, listener, now, vaultVars, bridgeVars, r_out, r_src,
                   r_had, unique_vaults, token_groups, networks, net_task,
                   service, init_log, has_bridge_proxy, init_error, run_pc,
                   token_decimals, setup, vault_states, vault_ticks,
                   r_after>>

\* lines 521-534
Service_metrics_load_count ==
    /\ r_pc = "relay_count"
    /\ r_out' = r_out \o <<Entry("relay_round", r_round),
                           Entry("relay_count", relay_count)>>
    /\ r_round' = 0
    /\ r_pc' = "listeners"
    /\ UNCHANGED <<printed, listener, now, vaultVars, bridgeVars, r_src, r_had,
                   unique_vaults, token_groups, networks, net_task, service,
                   init_log, has_bridge_proxy, init_error, run_pc,
                   token_decimals, setup, vault_states, vault_ticks,
                   r_todo, r_after>>

\* lines 537-580 for one vault, under its read guard; its listener's bridge
\* entries come first
Service_metrics_vault(v) ==
    /\ r_pc = "listeners"
    /\ <<"vault", v[1], v[2]>> \in r_todo
    /\ <<"bridge", v[1], 0>> \notin r_todo
    /\ r_out' = r_out \o VaultMetrics(v, vault_states[v])
    /\ r_todo' = r_todo \ {<<"vault", v[1], v[2]>>}
    /\ UNCHANGED <<printed, listener, now, vaultVars, bridgeVars, r_pc, r_round,
                   r_src, r_had, unique_vaults, token_groups, networks,
                   net_task, service, init_log, has_bridge_proxy, init_error,
                   run_pc, token_decimals, setup, vault_states, vault_ticks,
                   r_after>>

\* line 583: every listener has been visited
Service_metrics_end ==
    /\ r_pc = "listeners"
    /\ r_todo = {}
    /\ r_pc' = "idle"
    /\ r_out' = <<>>
    /\ r_after' = FALSE
    /\ UNCHANGED <<printed, listener, now, vaultVars, bridgeVars, r_round, r_src,
                   r_had, unique_vaults, token_groups, networks, net_task,
                   service, init_log, has_bridge_proxy, init_error, run_pc,
                   token_decimals, setup, vault_states, vault_ticks, r_todo>>

\* Service::new is called with one of the fixed configurations
InitService ==
    /\ InitNew
    /\ setup \in ServiceSetups
    /\ listener = [bridge_listener |->
                       \E n \in Networks : setup.networks[n].bridge_proxy,
                   vaults |-> 0]

NextService ==
    \/ \E n \in Networks : Listener_new(n)
    \/ \E n \in Networks : BridgeListener_new_last_round(n)
    \/ \E n \in Networks : BridgeListener_new_relay_count(n)
    \/ \E n \in Networks, i \in 1..MaxVaults : get_vault_token(n, i)
    \/ \E n \in Networks, i \in 1..MaxVaults : get_token_info(n, i)
    \/ run_start_listening
    \/ Service_start_listening_bridge
    \/ Service_bridge_loop_wake
    \/ Service_get_last_round
    \/ Service_get_relay_count
    \/ Service_start_listening_ok
    \/ Service_start_listening_err
    \/ ChainNewRound
    \/ \E v \in VaultSlots : Service_start_listening_vault(v)
    \/ \E v \in VaultSlots : Service_vault_loop_wake(v)
    \/ \E v \in VaultSlots : Service_vault_update(v)
    \/ Service_metrics_begin
    \/ \E n \in Networks : Service_metrics_load_round(n)
    \/ Service_metrics_load_count
    \/ \E v \in VaultSlots : Service_metrics_vault(v)
    \/ Service_metrics_end

SpecService == InitService /\ [][NextService]_vars

----------------------------------------------------------------------------
(* PrintedNum (src/src/printed_num.rs): the calls the type offers, each on  *)
(* a fresh value                                                            *)

\* longest digit string checked
MaxDigits == 2
\* the digits the strings are made of
Digits == {0, 1, 9}
DigitStrings == UNION {[1..k -> Digits] : k \in 0..MaxDigits}
\* what the Formatter holds before the value is written to it
Written == {<<>>, <<7>>}
\* the methods impl_operator! defines
Operators == {"add", "sub", "mul", "div", "rem"}
Radixes == {2, 10, 16}

\* impl_operator!: fn $method(self, _: Self) -> Self::Output
impl_operator_concat(method, self, other) ==
    [panic |-> "none", value |-> self \o other]
impl_operator(method, self, other) ==
    [panic |-> "not defined", value |-> <<>>]

\* Num::from_str_radix(_: &str, _: u32)
from_str_radix(str, radix) == [panic |-> "not defined", value |-> <<>>]

\* Display::fmt: f.write_str(self.0)
PrintedNum_fmt ==
    /\ printed.pc = "new"
    /\ printed' = [printed EXCEPT !.pc = "written", !.method = "fmt",
                                  !.f = @ \o PrintedNum(printed.self)]
    /\ UNCHANGED <<listener, now, vaultVars, bridgeVars, renderVars,
                   initVars>>

\* self.$method(other): the thread panics
PrintedNum_operator(method) ==
    /\ printed.pc \in {"new", "written"}
    /\ LET r == impl_operator(method, printed.self, printed.other)
       IN  printed' = [printed EXCEPT
               !.pc = IF r.panic = "none" THEN "returned" ELSE "panicked",
               !.method = method, !.panic = r.panic, !.value = r.value]
    /\ UNCHANGED <<listener, now, vaultVars, bridgeVars, renderVars,
                   initVars>>

\* PrintedNum::from_str_radix(str, radix): the thread panics
PrintedNum_from_str_radix ==
    /\ printed.pc \in {"new", "written"}
    /\ \E radix \in Radixes :
           LET r == from_str_radix(printed.other, radix)
           IN  printed' = [printed EXCEPT
                   !.pc = IF r.panic = "none" THEN "returned"
                          ELSE "panicked",
                   !.method = "from_str_radix", !.radix = radix,
                   !.panic = r.panic, !.value = r.value]
    /\ UNCHANGED <<listener, now, vaultVars, bridgeVars, renderVars,
                   initVars>>

\* PrintedNum(self) and a second operand, any digit strings, and a
\* Formatter; the service is idle
InitPrintedNum ==
    /\ InitRun
    /\ listener.vaults = 1
    /\ \E self \in DigitStrings, other \in DigitStrings, f \in Written :
           printed = [PrintedNum0 EXCEPT !.pc = "new", !.self = self,
                                         !.other = other, !.f = f]

NextPrintedNum ==
    \/ PrintedNum_fmt
    \/ \E method \in Operators : PrintedNum_operator(method)
    \/ PrintedNum_from_str_radix

SpecPrintedNum == InitPrintedNum /\ [][NextPrintedNum]_vars

----------------------------------------------------------------------------
(* Claims about the listening phase *)

\* C1: after a vault tick in which one of the four calls failed, the
\* published VaultState is, in all six fields, the state the tick began with.
C1_FailedTickKeepsState ==
    \A c \in Calls :
        vault_task[c].result = "err" => state = vault_task[c].before

\* a loop tick has failed after an earlier tick had published a snapshot
C1_Witness ==
    \E c \in Calls :
        /\ vault_task[c].result = "err"
        /\ vault_task[c].pc = "sleep"
        /\ state.updated_at # 0
        /\ state = vault_task[c].before

\* C2: the entries the renderer writes for a vault in one pass all come from
\* one successful tick: each is the entry of the snapshot published by that
\* tick, whatever the refresher does meanwhile.
C2_RenderedFromOneTick ==
    \A k \in 1..Len(r_src) :
        /\ r_src[k] = r_src[1]
        /\ r_src[k] = state_epoch
        /\ r_out[Len(r_out) - Len(r_src) + k] = VaultEntry(k - 1, state)

\* all six entries are written while a later tick waits to publish
C2_Witness ==
    /\ Len(r_src) = VaultEntries
    /\ \E c \in Calls : vault_task[c].pc = "publish"

\* C3: a bridge tick updates both current_round and relay_count or neither;
\* after a tick that ended in an error the pair is as before the tick.
C3_BridgeTickAllOrNothing ==
    \A c \in Calls :
        LET t == bridge_task[c] IN
        t.result \in {"ok", "err"} =>
            /\ (current_round # t.before.current_round) <=> t.stored
            /\ t.result = "err" =>
                   /\ current_round = t.before.current_round
                   /\ relay_count = t.before.relay_count

\* C4: the relay_count the renderer writes is the relay count of the
\* relay_round it writes in the same pass.
C4_RenderedBridgePair ==
    \A i \in 1..Len(r_out) :
        r_out[i].name = "relay_round" =>
            /\ i < Len(r_out)
            /\ r_out[i + 1].name = "relay_count"
            /\ r_out[i + 1].value = RelayCountOf(r_out[i].value)

\* C5: after a failed relay-count fetch, the first later tick whose calls all
\* succeed leaves relay_count equal to the relay count of current_round.
C5_RelayCountFreshAfterRecovery ==
    \A c \in Calls :
        (bridge_task[c].result = "ok" /\ bridge_task[c].was_stale) =>
            relay_count = RelayCountOf(current_round)

\* C6: a bridge tick that fetched the round issues no relay-count call when
\* the round equals the stored current_round, and exactly one, for the
\* fetched round, when it differs.
C6_RelayCountCalls ==
    \A c \in Calls :
        LET t == bridge_task[c] IN
        t.fetched # 0 =>
            t.calls = IF t.fetched = t.prev THEN <<>> ELSE <<t.fetched>>

\* a loop tick found the round unchanged and ended without a relay-count call
C6_Witness ==
    \E c \in Calls :
        LET t == bridge_task[c] IN
        /\ t.loop_tick
        /\ t.pc = "sleep"
        /\ t.result = "ok"
        /\ t.fetched = t.prev
        /\ t.calls = <<>>

VaultLoops == {c \in Calls : vault_task[c].spawned}
BridgeLoops == {c \in Calls : bridge_task[c].spawned}
VaultReturned ==
    \A c \in Calls : vault_task[c].pc \in {"noop", "failed", "sleep"}
                     \/ vault_task[c].spawned
BridgeReturned ==
    \A c \in Calls : bridge_task[c].pc \in {"noop", "failed", "sleep"}
                     \/ bridge_task[c].spawned

\* C7: whatever the number and interleaving of start_listening calls on a
\* refresher, at most one polling loop is ever spawned for it; a call that
\* finds the latch set returns Ok without an update and without a loop.
C7_AtMostOneLoop ==
    /\ Cardinality(VaultLoops) <= 1
    /\ Cardinality(BridgeLoops) <= 1
    /\ Cardinality({c \in Calls :
                       vault_task[c].pc \notin {"idle", "noop"}}) <= 1
    /\ Cardinality({c \in Calls :
                       bridge_task[c].pc \notin {"idle", "noop"}}) <= 1
    /\ \A c \in Calls :
           vault_task[c].pc = "noop" =>
               vault_task[c] = [VaultTask0 EXCEPT !.pc = "noop"]
    /\ \A c \in Calls :
           bridge_task[c].pc = "noop" =>
               bridge_task[c] = [BridgeTask0 EXCEPT !.pc = "noop"]

\* one call runs the loop, another found the latch set while the first was
\* still in its initial update
C7_Witness ==
    \E c, d \in Calls :
        /\ vault_task[c].pc = "noop"
        /\ vault_task[d].pc = "publish"
        /\ ~vault_task[d].spawned

\* C8 as stated: once the start_listening calls on a refresher have all
\* returned, exactly one polling loop runs for it.
C8_ExactlyOneLoop ==
    /\ (listener.vaults = 1 /\ VaultReturned) => Cardinality(VaultLoops) = 1
    /\ (listener.bridge_listener /\ BridgeReturned) =>
           Cardinality(BridgeLoops) = 1

\* C8 amended: once the calls have all returned, exactly one polling loop
\* runs if the initial update of the call that won the latch succeeded, and
\* none if it failed; never two.
C8_OneLoopUnlessInitialUpdateFailed ==
    /\ (listener.vaults = 1 /\ VaultReturned) =>
           Cardinality(VaultLoops) =
               IF \E c \in Calls : vault_task[c].pc = "failed" THEN 0 ELSE 1
    /\ (listener.bridge_listener /\ BridgeReturned) =>
           Cardinality(BridgeLoops) =
               IF \E c \in Calls : bridge_task[c].pc = "failed" THEN 0 ELSE 1

\* every call has returned and one loop runs
C8_Witness ==
    /\ listener.vaults = 1
    /\ VaultReturned
    /\ Cardinality(VaultLoops) = 1
    /\ \E c \in Calls : vault_task[c].pc = "noop"

\* the number a sequence of decimal digits denotes
RECURSIVE DecimalValue(_)
DecimalValue(digits) ==
    IF digits = <<>> THEN 0
    ELSE 10 * DecimalValue(SubSeq(digits, 1, Len(digits) - 1))
             + digits[Len(digits)]

\* digits is the decimal form of n: digits 0..9, no leading zero
IsDecimalOf(digits, n) ==
    /\ Len(digits) >= 1
    /\ \A i \in 1..Len(digits) : digits[i] \in 0..9
    /\ Len(digits) > 1 => digits[1] # 0
    /\ DecimalValue(digits) = n

\* the k-th entry of a vault: its name and the integer it must show
FetchedEntry(k, fetched) ==
    CASE k = 1 -> <<"balance", fetched.balance>>
      [] k = 2 -> <<"total_assets", fetched.total_assets>>
      [] k = 3 -> <<"withdraw_limit_per_period", fetched.withdraw_limit>>
      [] k = 4 -> <<"withdrawal_period_total", fetched.withdraw_total>>
      [] k = 5 -> <<"withdrawal_period_considered",
                    fetched.withdraw_considered>>
      [] k = 6 -> <<"updated_at", fetched.updated_at>>

\* C12: a pass writes no entry for a vault no tick of which has succeeded
\* (its updated_at is 0), and writes the entries of a vault with a successful
\* tick; every value written is the decimal form, digit for digit, of the
\* integer the latest successful tick fetched.
C12_RenderedExactDecimals ==
    /\ (last_ok.ticks = 0) <=> (state.updated_at = 0)
    /\ (r_pc = "done" /\ listener.vaults = 1) =>
           (~r_had /\ r_out = <<>> /\ r_src = <<>>)
    /\ r_pc = "emit" => r_had
    /\ r_src # <<>> => (r_pc = "emit" /\ state.updated_at # 0)
    /\ \A k \in 1..Len(r_src) :
           LET e == r_out[Len(r_out) - Len(r_src) + k]
               f == FetchedEntry(k, last_ok)
           IN  /\ e.name = f[1]
               /\ IF k = VaultEntries THEN e.value = f[2]
                  ELSE IsDecimalOf(e.value, f[2])

\* a pass has written all six entries of a vault whose latest successful
\* tick fetched a two-digit balance
C12_Witness ==
    /\ r_pc = "emit"
    /\ Len(r_src) = VaultEntries
    /\ last_ok.balance = 12
    /\ r_out[1].value = <<1, 2>>

\* the positions of a tick at which one of its calls is in flight
VaultCallPcs == {"balance", "total_assets", "withdraw_limit", "period_stats"}

PeriodSamples ==
    {0, 1, 86399, 86400, 86401, 172799, 172800, 172801, 2147483647}

\* q is the integer quotient of t by 86400
IsPeriodOf(q, t) == q \in Nat /\ (t - q * 86400) \in 0..86399

\* C17: withdrawal_period(t) is the integer quotient of t by 86400 (86399
\* gives 0, 86400 gives 1, 172800 gives 2), and the period id a tick passes
\* to the withdrawal-period statistics call is withdrawal_period of the
\* tick's updated_at.
C17_WithdrawalPeriod ==
    /\ \A t \in PeriodSamples : IsPeriodOf(withdrawal_period(t), t)
    /\ withdrawal_period(86399) = 0
    /\ withdrawal_period(86400) = 1
    /\ withdrawal_period(172800) = 2
    /\ \A c \in Calls :
           /\ vault_task[c].pc \in {"period_stats", "publish", "write"} =>
                  IsPeriodOf(vault_task[c].period, vault_task[c].updated_at)
           /\ vault_task[c].pc \notin {"period_stats", "publish", "write"} =>
                  vault_task[c].period = NoPeriod

\* a tick begun in the first second of day 1 has issued the statistics call
\* for period 1
C17_Witness ==
    \E c \in Calls :
        /\ vault_task[c].pc = "period_stats"
        /\ vault_task[c].updated_at = 86400
        /\ vault_task[c].period = 1

\* the calls of a tick in the order of lines 252-258, then the statement of
\* line 260
TickOrder ==
    <<"balance", "total_assets", "withdraw_limit", "period_stats",
      "publish", "write">>

\* the results a tick holds while at position i of TickOrder: those of the
\* calls before it, and no other
TickHolds(t, i) ==
    /\ (t.balance # 0) <=> i > 1
    /\ (t.total_assets # 0) <=> i > 2
    /\ (t.withdraw_limit # 0) <=> i > 3
    /\ (t.withdraw_total # 0 /\ t.withdraw_considered # 0) <=> i > 4
    /\ t.result = "none"

C22_TickState ==
    \A c \in Calls : \A i \in 1..Len(TickOrder) :
        vault_task[c].pc = TickOrder[i] => TickHolds(vault_task[c], i)

C22_TickStep ==
    \A c \in Calls :
        LET t == vault_task[c]
            u == vault_task'[c]
        IN  /\ (u.pc = "balance" /\ u # t) => t.pc \in {"idle", "sleep"}
            /\ \A i \in 2..Len(TickOrder) :
                   (u.pc = TickOrder[i] /\ u # t) =>
                       t.pc = TickOrder[i - 1]
            /\ (t.pc \in VaultCallPcs /\ u.pc \notin
                     VaultCallPcs \cup {"publish"}) =>
                   /\ u.pc \in {"sleep", "failed"}
                   /\ u.result = "err"
                   /\ state' = state
                   /\ state_epoch' = state_epoch
            /\ (t.pc \in {"publish", "write"} /\ u # t) =>
                   u.pc = IF t.pc = "publish" THEN "write" ELSE "sleep"
            /\ (t.pc = "write" /\ u # t) =>
                   /\ u.result = "ok"
                   /\ state_epoch' # state_epoch
                   /\ state' = NewVaultState(t)
            /\ (u.result = "ok" /\ u # t) => t.pc = "write"
            /\ (state' # state \/ state_epoch' # state_epoch) =>
                   \E d \in Calls : vault_task[d].pc = "write"

\* C22: a tick has one call in flight at a time and issues balance, total
\* assets, withdraw limit and period statistics in that order, each only
\* after the one before it returned Ok; a call that fails ends the tick with
\* the error, no later call issued and nothing published; the state is
\* replaced only by a tick whose four calls all succeeded, and such a tick
\* always ends by replacing it.
C22_SequentialAllOrNothing == []C22_TickState /\ [][C22_TickStep]_vars

\* a tick of the loop, after an earlier tick has published, holds three
\* results and has its statistics call in flight
C22_Witness ==
    \E c \in Calls :
        /\ vault_task[c].pc = "period_stats"
        /\ vault_task[c].spawned
        /\ vault_task[c].balance = 7
        /\ vault_task[c].total_assets = 12
        /\ vault_task[c].withdraw_limit = 7
        /\ state.updated_at # 0

\* the initial update of a start_listening call on the refresher has failed
VaultStartFailed == \E c \in Calls : vault_task[c].pc = "failed"
BridgeStartFailed == \E c \in Calls : bridge_task[c].pc = "failed"

C24_LatchState ==
    /\ VaultStartFailed =>
           /\ vault_listening
           /\ VaultLoops = {}
           /\ \A c \in Calls :
                  \/ vault_task[c].pc = "idle"
                  \/ vault_task[c].pc = "failed"
                  \/ vault_task[c] = [VaultTask0 EXCEPT !.pc = "noop"]
    /\ BridgeStartFailed =>
           /\ bridge_listening
           /\ BridgeLoops = {}
           /\ \A c \in Calls :
                  \/ bridge_task[c].pc = "idle"
                  \/ bridge_task[c].pc = "failed"
                  \/ bridge_task[c] = [BridgeTask0 EXCEPT !.pc = "noop"]

C24_LatchStep ==
    /\ VaultStartFailed =>
           /\ <<vault_listening, state, state_epoch>>' =
                  <<vault_listening, state, state_epoch>>
           /\ \A c \in Calls :
                  vault_task'[c] # vault_task[c] =>
                      /\ vault_task[c].pc = "idle"
                      /\ vault_task'[c].pc = "noop"
    /\ BridgeStartFailed =>
           /\ <<bridge_listening, current_round, relay_count>>' =
                  <<bridge_listening, current_round, relay_count>>
           /\ \A c \in Calls :
                  bridge_task'[c] # bridge_task[c] =>
                      /\ bridge_task[c].pc = "idle"
                      /\ bridge_task'[c].pc = "noop"

\* C24 (vault and bridge refresher): once the initial update of a
\* start_listening call has failed, the latch is set and stays set, no loop
\* exists, and the only step left to the refresher is a further
\* start_listening call returning Ok at once, with no update and no loop;
\* its state is never written again.
C24_FailedStartNeverPolled == []C24_LatchState /\ [][C24_LatchStep]_vars

\* the bridge refresher's initial update failed, a later start_listening
\* call returned Ok at once, and the contract has since opened a round the
\* refresher will never fetch
C24_Witness ==
    \E c, d \in Calls :
        /\ bridge_task[c].pc = "failed"
        /\ bridge_task[d].pc = "noop"
        /\ bridge_listening
        /\ chain_round > current_round

\* the entries that carry the withdrawal_period label
PeriodEntryNames ==
    {"withdrawal_period_total", "withdrawal_period_considered"}

\* C25: the withdrawal_period label a pass writes with a vault's
\* withdrawal_period_total and withdrawal_period_considered is the period id
\* given to the statistics call that returned the two values written, and
\* both are withdrawal_period(updated_at) of the published snapshot, whose
\* updated_at is the time the tick sampled before its first call.
C25_PeriodLabelMatchesCall ==
    /\ \A c \in Calls :
           vault_task[c].pc \in {"period_stats", "publish", "write"} =>
               vault_task[c].period =
                   withdrawal_period(vault_task[c].updated_at)
    /\ \A c \in Calls :
           vault_task[c].pc = "balance" => vault_task[c].updated_at = now
    /\ last_ok.ticks > 0 =>
           /\ state.updated_at = last_ok.updated_at
           /\ last_ok.period = withdrawal_period(state.updated_at)
    /\ \A k \in 1..Len(r_src) :
           LET e == r_out[Len(r_out) - Len(r_src) + k]
           IN  e.name \in PeriodEntryNames =>
                   /\ e.withdrawal_period = last_ok.period
                   /\ IsDecimalOf(e.value, FetchedEntry(k, last_ok)[2])
    /\ \A k \in 1..Len(r_src) :
           (r_out[Len(r_out) - Len(r_src) + k].name \in PeriodEntryNames)
               <=> k \in {4, 5}

\* a pass has written both entries with period 0, the period of the
\* snapshot, while a later tick has its statistics call for period 1 in
\* flight
C25_Witness ==
    /\ Len(r_src) >= 5
    /\ r_out[Len(r_out) - Len(r_src) + 4].withdrawal_period = 0
    /\ r_out[Len(r_out) - Len(r_src) + 5].withdrawal_period = 0
    /\ \E c \in Calls : /\ vault_task[c].pc = "period_stats"
                         /\ vault_task[c].period = 1


----------------------------------------------------------------------------
(* Claims about the startup phase *)

VaultCalls == {e \in init_log : e.op = "add_vault"}
GroupCalls == {e \in init_log : e.op = "add_token_group"}

\* C9: the first add_vault of a (chain id, address) key succeeds and every
\* later one of that key fails; two registrations of one key never both
\* succeed, and a registration fails only if its key was registered before.
C9_AddVaultFirstOnly ==
    /\ \A a \in VaultCalls : a.ok <=> a.seen = NoGroup
    /\ \A a, b \in VaultCalls :
           (a # b /\ a.key = b.key) => ~(a.ok /\ b.ok)
    /\ \A a \in VaultCalls :
           ~a.ok => \E b \in VaultCalls : b # a /\ b.key = a.key /\ b.ok
    /\ unique_vaults = {a.key : a \in VaultCalls}

\* two networks reporting the same chain id registered the same address:
\* the first succeeded, the second failed
C9_Witness ==
    \E a, b \in VaultCalls :
        /\ a.net # b.net
        /\ a.key = b.key
        /\ a.ok
        /\ ~b.ok

\* C10: add_token_group records the label of an unseen key, succeeds without
\* changing the map for the recorded label, and fails without changing the
\* map for another label; of two calls with distinct labels for one key at
\* least one fails.
C10_AddTokenGroup ==
    /\ \A a \in GroupCalls : a.ok <=> a.seen \in {NoGroup, a.label}
    /\ \A a \in GroupCalls :
           GroupOf(token_groups, a.key) =
               IF a.seen = NoGroup THEN a.label ELSE a.seen
    /\ \A a, b \in GroupCalls :
           (a.key = b.key /\ a.label # b.label) => ~(a.ok /\ b.ok)
    /\ \A e, f \in token_groups : e[1] = f[1] => e = f
    /\ {e[1] : e \in token_groups} = {a.key : a \in GroupCalls}

\* a label was recorded for a token, and a second vault of that token came
\* with another label and was refused
C10_Witness ==
    \E a, b \in GroupCalls :
        /\ a.key = b.key
        /\ a.seen = NoGroup /\ a.ok
        /\ b.seen = a.label /\ b.label # a.label /\ ~b.ok
        /\ GroupOf(token_groups, a.key) = a.label

\* two vaults of one token came with the same label: both calls succeeded
C10_WitnessIdempotent ==
    \E a, b \in GroupCalls :
        /\ a # b
        /\ a.key = b.key
        /\ a.label = b.label
        /\ a.ok /\ b.ok

BridgeCalls == {e \in init_log : e.op = "set_has_bridge_proxy"}

\* C11: when Service::new has returned Ok, any two configured vaults with the
\* same (chain id, token) have the same group setting: the same label, or
\* both none.
C11_GroupAbsentOrIdentical ==
    service = "ok" =>
        \A v, w \in VaultFutures :
            LET a == net_task[v[1]].vaults[v[2]]
                b == net_task[w[1]].vaults[w[2]]
            IN  (net_task[v[1]].chain_id = net_task[w[1]].chain_id
                 /\ a.token = b.token) => a.group = b.group

\* C13: Service::new returns an error exactly when a step of some network's
\* initialization failed, and then no Service exists and start_listening is
\* never called; it returns Ok only when every network's listener, with its
\* bridge listener and every configured vault, has been built.
C13_StartupAllOrNothing ==
    /\ service = "failed" <=> init_error # "none"
    /\ (\E e \in init_log : ~e.ok) => service = "failed"
    /\ service = "ok" <=> \A n \in Networks : net_task[n].pc = "done"
    /\ service = "ok" =>
           \A n \in Networks :
               /\ net_task[n].bridge_listener = networks[n].bridge_proxy
               /\ Len(net_task[n].vaults) = Len(networks[n].vaults)
               /\ \A i \in 1..Len(net_task[n].vaults) :
                      /\ net_task[n].vaults[i].pc = "done"
                      /\ net_task[n].vaults[i].address =
                             networks[n].vaults[i].address
    /\ service # "ok" => (run_pc = "new" /\ token_decimals = <<>>)
    /\ \A c \in Calls : run_pc = "new" =>
           (~vault_task[c].spawned /\ ~bridge_task[c].spawned)

\* one network's listener is complete, with a vault, and Service::new has
\* failed on an inconsistent token group in the other network
C13_Witness ==
    /\ service = "failed"
    /\ init_error = "inconsistent_group"
    /\ \E n \in Networks : /\ net_task[n].pc = "done"
                            /\ Len(net_task[n].vaults) > 0

\* C15: the first set_has_bridge_proxy call succeeds and every later one
\* fails, whatever the chain ids; Service::new fails whenever two networks
\* configure a bridge proxy.
C15_BridgeLatch ==
    /\ \A a \in BridgeCalls : a.ok <=> a.seen = NoGroup
    /\ \A a, b \in BridgeCalls : a # b => ~(a.ok /\ b.ok)
    /\ has_bridge_proxy <=> BridgeCalls # {}
    /\ Cardinality(BridgeCalls) >= 2 => service = "failed"
    /\ service = "ok" =>
           Cardinality({n \in Networks : networks[n].bridge_proxy}) <= 1

\* two networks on different chains configured a bridge proxy: the first
\* call succeeded, the second failed and startup with it
C15_Witness ==
    \E a, b \in BridgeCalls :
        /\ a.key[1] # b.key[1]
        /\ a.ok
        /\ ~b.ok
        /\ init_error = "duplicate_bridge"

----------------------------------------------------------------------------
(* Claims about the service as a whole *)

\* the (chain id, token) keys of the vaults the listeners hold
VaultTokens ==
    {<<net_task[v[1]].chain_id, net_task[v[1]].vaults[v[2]].token>> :
        v \in VaultFutures}

\* the entries of out that carry one of names
Named(out, names) == {i \in 1..Len(out) : out[i].name \in names}

C18_CatalogueState ==
    /\ service # "ok" => token_decimals = <<>>
    /\ service = "ok" =>
           /\ Len(token_decimals) = Cardinality(VaultTokens)
           /\ \A key \in VaultTokens :
                  Cardinality({i \in 1..Len(token_decimals) :
                      /\ token_decimals[i].chain_id = key[1]
                      /\ token_decimals[i].token = key[2]}) = 1
           /\ \A i \in 1..Len(token_decimals) :
                  /\ token_decimals[i].name = "token_decimals"
                  /\ token_decimals[i].token_group =
                         GroupOf(token_groups,
                                 <<token_decimals[i].chain_id,
                                   token_decimals[i].token>>)
    /\ r_pc # "idle" =>
           /\ SubSeq(r_out, 1, Len(token_decimals)) = token_decimals
           /\ Named(r_out, {"token_decimals"}) = 1..Len(token_decimals)

C18_CatalogueStep ==
    service = "ok" =>
        /\ token_decimals' = token_decimals
        /\ token_groups' = token_groups
        /\ net_task' = net_task

\* C18: once Service::new has returned Ok the catalogue holds exactly one
\* token_decimals entry per (chain id, token) of the listeners' vaults, with
\* the group label the registry records for it; before that there is none;
\* no later step changes it, and every pass writes it first, unchanged.
C18_Catalogue == []C18_CatalogueState /\ [][C18_CatalogueStep]_vars

\* two vaults of one token in group g1: the catalogue holds one entry, with
\* that label, and a pass has written it after a tick of a vault succeeded
C18_Witness ==
    /\ setup = SetupSharedToken
    /\ service = "ok"
    /\ Len(token_decimals) = 1
    /\ token_decimals[1].token_group = "g1"
    /\ r_pc = "listeners"
    /\ r_todo = {}
    /\ r_out[1] = token_decimals[1]
    /\ \E v \in VaultFutures : vault_ticks[v].ticks > 0

VaultEntryNames ==
    {"balance", "total_assets", "withdraw_limit_per_period",
     "withdrawal_period_total", "withdrawal_period_considered",
     "updated_at"}

\* a pass over the two-network configuration, begun after every vault had a
\* successful tick, has visited every listener
C19_PassAfterRound ==
    /\ setup = SetupTwoNetworks
    /\ r_pc = "listeners"
    /\ r_todo = {}
    /\ r_after

\* C19: two networks with one vault each, no shared token, no bridge proxy:
\* a pass begun after one successful tick of each vault writes exactly 12
\* vault entries, one per vault and metric name, exactly 2 token_decimals
\* entries, and no relay_round or relay_count entry.
C19_TwoNetworksOutput ==
    C19_PassAfterRound =>
        /\ Cardinality(Named(r_out, VaultEntryNames)) = 12
        /\ \A v \in VaultFutures, name \in VaultEntryNames :
               Cardinality({i \in Named(r_out, {name}) :
                   /\ r_out[i].chain_id = net_task[v[1]].chain_id
                   /\ r_out[i].vault =
                          net_task[v[1]].vaults[v[2]].address}) = 1
        /\ Cardinality(Named(r_out, {"token_decimals"})) = 2
        /\ Named(r_out, {"relay_round", "relay_count"}) = {}
        /\ Len(r_out) = 14

\* such a pass, holding the entries of both vaults
C19_Witness ==
    /\ C19_PassAfterRound
    /\ Cardinality(VaultFutures) = 2
    /\ Len(r_out) = 14

C20_Registry ==
    <<token_decimals, unique_vaults, token_groups, has_bridge_proxy>>

C20_Frame ==
    /\ \A v \in VaultSlots :
           vault_ticks'[v] # vault_ticks[v] =>
               /\ \A w \in VaultSlots \ {v} :
                      vault_states'[w] = vault_states[w]
               /\ current_round' = current_round
               /\ relay_count' = relay_count
               /\ C20_Registry' = C20_Registry
    /\ bridge_task' # bridge_task =>
           /\ vault_states' = vault_states
           /\ C20_Registry' = C20_Registry

\* C20: a step of a vault's tick, successful or failed, changes no other
\* vault's state, no bridge state, and neither the catalogue nor the
\* registry; a step of the bridge's tick changes no vault's state, and
\* neither the catalogue nor the registry.
C20_WritesExclusivelyOwned == [][C20_Frame]_vars

\* a tick of one vault has published a newer state while the other vault of
\* the service, its refresher asleep, keeps the state of its own last tick
C20_Witness ==
    \E v, w \in VaultFutures :
        /\ v # w
        /\ vault_ticks[v].pc = "sleep"
        /\ vault_ticks[w].pc = "sleep"
        /\ vault_states[v].updated_at = 86400
        /\ vault_states[w].updated_at = 86399

\* the entries of out written for vault v under one of names
VaultNamed(out, v, names) ==
    {i \in Named(out, names) :
        /\ out[i].chain_id = net_task[v[1]].chain_id
        /\ out[i].vault = net_task[v[1]].vaults[v[2]].address}

\* C23: Service::start_listening has returned Ok only if the initial update
\* of the bridge refresher and of every vault refresher succeeded, so every
\* vault then has updated_at # 0; passes are rendered only then, and each
\* writes the six entries of every vault it visits; once an initial update
\* has failed start_listening returns no Ok, and it returns an error only
\* then.
C23_OkAfterAllInitialUpdates ==
    /\ run_pc = "serving" =>
           /\ listener.bridge_listener => bridge_task[1].spawned
           /\ \A v \in VaultFutures :
                  /\ vault_ticks[v].ticks > 0
                  /\ vault_states[v].updated_at # 0
    /\ r_pc # "idle" =>
           /\ run_pc = "serving"
           /\ \A v \in VaultFutures :
                  <<"vault", v[1], v[2]>> \notin r_todo =>
                      \A name \in VaultEntryNames :
                          Cardinality(VaultNamed(r_out, v, {name})) = 1
    /\ StartFailed => run_pc \in {"listening", "exit"}
    /\ run_pc = "exit" => StartFailed
    /\ (StartFailed /\ run_pc = "listening") =>
           /\ ENABLED Service_start_listening_err
           /\ ~ENABLED Service_start_listening_ok

\* the service with a bridge proxy and a vault is serving: a pass has
\* written the bridge's two entries and the vault's six while a tick of the
\* vault's loop is in flight
C23_Witness ==
    /\ setup = SetupBridge
    /\ run_pc = "serving"
    /\ r_pc = "listeners"
    /\ r_todo = {}
    /\ Cardinality(Named(r_out, VaultEntryNames)) = 6
    /\ Cardinality(Named(r_out, {"relay_round", "relay_count"})) = 2
    /\ \E v \in VaultFutures : vault_ticks[v].pc = "tick"

----------------------------------------------------------------------------
(* Claims about PrintedNum *)

\* C21: displaying PrintedNum(s) appends exactly the digit string s to what
\* the Formatter held and panics not; add, sub, mul, div, rem and
\* from_str_radix all end in the panic "not defined" and produce no value,
\* whatever the operands.
C21_FormatOnly ==
    /\ printed.pc = "written" =>
           /\ \E f \in Written : printed.f = f \o printed.self
           /\ printed.panic = "none"
    /\ printed.pc \in {"panicked", "returned"} =>
           /\ printed.method \in Operators \cup {"from_str_radix"}
           /\ printed.pc = "panicked"
           /\ printed.panic = "not defined"
           /\ printed.value = <<>>
    /\ printed.method \in Operators \cup {"from_str_radix"} =>
           printed.pc = "panicked"

\* a two-digit value has been written after earlier text, and a division
\* of it by another value has then panicked
C21_Witness ==
    /\ printed.pc = "panicked"
    /\ printed.method = "div"
    /\ Len(printed.self) = 2
    /\ Len(printed.other) > 0
    /\ printed.f = <<7>> \o printed.self

====
